---- MODULE Spec2Model ----
(***************************************************************************)
(* NutriSage-MLOps: the schema contract (fe/schema.py), the streaming      *)
(* ingestion loop (ingestion/ingest_nutrisage.py), the dataset validator   *)
(* (ingestion/validate_ingest.py) and the cleaner (data_prep/cleaning.py). *)
(*                                                                         *)
(* Python values are tagged records.  A text is a sequence of one-letter   *)
(* strings, so that the regular expressions of schema.py can be applied    *)
(* letter by letter.  Python integers are unbounded; an integer n is held  *)
(* as the pair (n div 86400, n mod 86400), which is what the calendar      *)
(* arithmetic of utcfromtimestamp needs.                                   *)
(***************************************************************************)
EXTENDS Integers, Sequences, FiniteSets, TLC

VARIABLES
    fl_pc, fl_obj, fl_out,            \* extract_columns: position, input, result
    pv_pc, pv_row, pv_out, nc_out,    \* make_partition_values / normalize_country
    v_pc, v_meta, v_res, v_count, v_exit, v_uncaught,  \* validate_ingest.main
    c_pc, c_df, c_flag, c_out,        \* cleaning.clean: input, flag, result
    i_pc, i_input, i_chunk_rows,      \* stream_ingest: position, file, chunk size
    i_pos, i_lines, i_df,             \* lines consumed, current chunk and frame
    i_sink, i_rows_written, i_err,    \* batches appended, running total, failure
    i_vres                            \* check_detailed on the written dataset

flattenVars == <<fl_pc, fl_obj, fl_out>>
partVars    == <<pv_pc, pv_row, pv_out, nc_out>>
validVars   == <<v_pc, v_meta, v_res, v_count, v_exit, v_uncaught>>
cleanVars   == <<c_pc, c_df, c_flag, c_out>>
ingestVars  == <<i_pc, i_input, i_chunk_rows, i_pos, i_lines, i_df,
                 i_sink, i_rows_written, i_err, i_vres>>
vars        == <<fl_pc, fl_obj, fl_out, pv_pc, pv_row, pv_out, nc_out,
                 v_pc, v_meta, v_res, v_count, v_exit, v_uncaught,
                 c_pc, c_df, c_flag, c_out,
                 i_pc, i_input, i_chunk_rows, i_pos, i_lines, i_df,
                 i_sink, i_rows_written, i_err, i_vres>>

(***************************************************************************)
(* Python values                                                           *)
(***************************************************************************)
None       == [kind |-> "none"]
PyInt(d, s) == [kind |-> "int", days |-> d, secs |-> s]
PyNum(n)   == PyInt(n \div 86400, n % 86400)
PyNaN      == [kind |-> "float", cls |-> "nan"]
PyInf      == [kind |-> "float", cls |-> "inf"]
PyStr(cs)  == [kind |-> "str", s |-> cs]
PyList(l)  == [kind |-> "list", l |-> l]
PyDict(d)  == [kind |-> "dict", d |-> d]
PyBool(b)  == [kind |-> "bool", b |-> b]

\* a Python dict that keeps insertion order: a sequence of <<key, value>>
RECURSIVE DictIndex(_, _, _)
DictIndex(dict, k, i) ==
    IF i > Len(dict) THEN 0
    ELSE IF dict[i][1] = k THEN i ELSE DictIndex(dict, k, i + 1)

DictHas(dict, k) == DictIndex(dict, k, 1) # 0
DictGet(dict, k) == dict[DictIndex(dict, k, 1)][2]
DictSet(dict, k, v) ==
    IF DictHas(dict, k)
    THEN [dict EXCEPT ![DictIndex(dict, k, 1)] = <<k, v>>]
    ELSE Append(dict, <<k, v>>)
DictKeys(dict) == [i \in 1..Len(dict) |-> dict[i][1]]

SeqToSet(s) == {s[i] : i \in 1..Len(s)}

RECURSIVE SumSeq(_)
SumSeq(ns) == IF ns = << >> THEN 0 ELSE Head(ns) + SumSeq(Tail(ns))

(***************************************************************************)
(* fe/schema.py: the schema contract                                       *)
(***************************************************************************)
KEEP_COLS ==
    << "energy_100g", "energy-kcal_100g", "fat_100g", "saturated-fat_100g",
       "carbohydrates_100g", "sugars_100g", "fiber_100g", "proteins_100g",
       "sodium_100g",
       "product_name", "main_category", "brands_tags", "countries_tags",
       "serving_size",
       "created_t",
       "nutrition_grade_fr" >>

PART_COLS == << "year", "country" >>

DTYPES ==
    << <<"energy_100g", "float32">>, <<"energy-kcal_100g", "float32">>,
       <<"fat_100g", "float32">>, <<"saturated-fat_100g", "float32">>,
       <<"carbohydrates_100g", "float32">>, <<"sugars_100g", "float32">>,
       <<"fiber_100g", "float32">>, <<"proteins_100g", "float32">>,
       <<"sodium_100g", "float32">>,
       <<"main_category", "string">>, <<"serving_size", "string">>,
       <<"nutrition_grade_fr", "string">>,
       <<"created_t", "Int64">> >>

DTypeOfCol(col) == DictGet(DTYPES, col)

TARGET == "nutrition_grade_fr"

\* str.endswith('_100g'), on the column names this module knows
Names100g ==
    { "energy_100g", "energy-kcal_100g", "fat_100g", "saturated-fat_100g",
      "carbohydrates_100g", "sugars_100g", "fiber_100g", "proteins_100g",
      "sodium_100g", "fruits-vegetables-nuts_100g", "sugar_100g",
      "protein_100g" }
EndsWith100g(name) == name \in Names100g

NUTRIMENTS_KEY == SelectSeq(KEEP_COLS, EndsWith100g)

RECURSIVE BuildPaths(_, _)
BuildPaths(cols, acc) ==
    IF cols = << >> THEN acc
    ELSE BuildPaths(Tail(cols),
            DictSet(acc, Head(cols),
                IF Head(cols) \in SeqToSet(NUTRIMENTS_KEY)
                THEN << "nutriments", Head(cols) >>
                ELSE << Head(cols) >>))

COLUMN_PATHS == BuildPaths(KEEP_COLS, << >>)

(***************************************************************************)
(* extract_columns                                                         *)
(***************************************************************************)
\* WalkPath without the isinstance / membership test: node[key] raises
RECURSIVE WalkPath_unchecked(_, _)
WalkPath_unchecked(node, path) ==
    IF path = << >> THEN [status |-> "ok", value |-> node]
    ELSE IF node.kind # "dict" THEN [status |-> "TypeError", value |-> None]
    ELSE IF Head(path) \notin DOMAIN node.d
         THEN [status |-> "KeyError", value |-> None]
         ELSE WalkPath_unchecked(node.d[Head(path)], Tail(path))

\* the inner loop: descend node along path; None as soon as a step fails
RECURSIVE WalkPath(_, _)
WalkPath(node, path) ==
    IF path = << >> THEN [status |-> "ok", value |-> node]
    ELSE IF node.kind = "dict" /\ Head(path) \in DOMAIN node.d
         THEN WalkPath(node.d[Head(path)], Tail(path))
         ELSE [status |-> "ok", value |-> None]

RECURSIVE ExtractLoop(_, _, _)
ExtractLoop(obj, paths, out) ==
    IF paths = << >> THEN [status |-> "ok", value |-> out]
    ELSE LET w == WalkPath(obj, Head(paths)[2])
         IN  IF w.status # "ok" THEN [status |-> w.status, value |-> out]
             ELSE ExtractLoop(obj, Tail(paths),
                              DictSet(out, Head(paths)[1], w.value))

extract_columns(obj) == ExtractLoop(obj, COLUMN_PATHS, << >>)

(***************************************************************************)
(* Text: str methods and the regular expressions of schema.py              *)
(***************************************************************************)
LowerLetters ==
    << "a","b","c","d","e","f","g","h","i","j","k","l","m",
       "n","o","p","q","r","s","t","u","v","w","x","y","z" >>
UpperLetters ==
    << "A","B","C","D","E","F","G","H","I","J","K","L","M",
       "N","O","P","Q","R","S","T","U","V","W","X","Y","Z" >>
Digits == << "0","1","2","3","4","5","6","7","8","9" >>

IsLower(c) == c \in SeqToSet(LowerLetters)
IsDigit(c) == c \in SeqToSet(Digits)
IsSpace(c) == c \in {" ", "\t", "\n", "\r", "\f"}      \* \s

\* str.lower(), one letter
LowerChar(c) ==
    IF \E i \in 1..26 : UpperLetters[i] = c
    THEN LowerLetters[CHOOSE i \in 1..26 : UpperLetters[i] = c]
    ELSE c
StrLower(cs) == [i \in 1..Len(cs) |-> LowerChar(cs[i])]

RECURSIVE LStrip(_)
LStrip(cs) ==
    IF cs # << >> /\ IsSpace(Head(cs)) THEN LStrip(Tail(cs)) ELSE cs

RECURSIVE RStrip(_)
RStrip(cs) ==
    IF cs # << >> /\ IsSpace(cs[Len(cs)])
    THEN RStrip(SubSeq(cs, 1, Len(cs) - 1)) ELSE cs

\* str.strip()
StrStrip(cs) == RStrip(LStrip(cs))

\* str.split(',')[0]
RECURSIVE SplitCommaFirst(_)
SplitCommaFirst(cs) ==
    IF cs = << >> \/ Head(cs) = "," THEN << >>
    ELSE << Head(cs) >> \o SplitCommaFirst(Tail(cs))

\* str(n) of an integer
RECURSIVE NatToText(_)
NatToText(n) ==
    IF n < 10 THEN << Digits[n + 1] >>
    ELSE NatToText(n \div 10) \o << Digits[(n % 10) + 1] >>
IntToText(n) == IF n < 0 THEN << "-" >> \o NatToText(-n) ELSE NatToText(n)

\* str(x) for the kinds of value that reach it
PyStrOf(x) ==
    CASE x.kind = "str"   -> x.s
      [] x.kind = "int"   -> IntToText(x.days * 86400 + x.secs)
      [] x.kind = "bool"  -> IF x.b THEN << "T","r","u","e" >>
                                    ELSE << "F","a","l","s","e" >>
      [] x.kind = "float" -> IF x.cls = "nan" THEN << "n","a","n" >>
                             ELSE << "i","n","f" >>
      [] x.kind = "none"  -> << "N","o","n","e" >>

\* bool(x): Python truthiness
Truthy(x) ==
    CASE x.kind = "none"  -> FALSE
      [] x.kind = "str"   -> x.s # << >>
      [] x.kind = "list"  -> x.l # << >>
      [] x.kind = "dict"  -> DOMAIN x.d # {}
      [] x.kind = "int"   -> ~(x.days = 0 /\ x.secs = 0)
      [] x.kind = "bool"  -> x.b
      [] OTHER            -> TRUE

\* _LANG_PREFIX = ^[a-z]{2}[:_\-]?  and _LANG_PREFIX.sub("", raw)
_LANG_PREFIX_sub(cs) ==
    IF Len(cs) >= 2 /\ IsLower(cs[1]) /\ IsLower(cs[2])
    THEN IF Len(cs) >= 3 /\ cs[3] \in {":", "_", "-"}
         THEN SubSeq(cs, 4, Len(cs))
         ELSE SubSeq(cs, 3, Len(cs))
    ELSE cs

\* re.sub(r"\s+", "-", raw)
RECURSIVE SubSpaceRuns(_)
SubSpaceRuns(cs) ==
    IF cs = << >> THEN << >>
    ELSE IF IsSpace(Head(cs))
         THEN << "-" >> \o SubSpaceRuns(LStrip(cs))
         ELSE << Head(cs) >> \o SubSpaceRuns(Tail(cs))

\* re.sub(r"[^a-z0-9\-]", "", slug)
IsSlugChar(c) == IsLower(c) \/ IsDigit(c) \/ c = "-"
DropNonSlug(cs) == SelectSeq(cs, IsSlugChar)

(***************************************************************************)
(* normalize_country                                                       *)
(***************************************************************************)
normalize_country(tag_field) ==
    IF ~Truthy(tag_field) THEN [status |-> "ok", value |-> None]
    ELSE LET raw == IF tag_field.kind = "list" THEN tag_field.l[1]
                    ELSE PyStr(SplitCommaFirst(PyStrOf(tag_field)))
         IN  IF raw.kind # "str"             \* raw.strip() on a non-str
             THEN [status |-> "AttributeError", value |-> None]
             ELSE LET low  == _LANG_PREFIX_sub(StrLower(StrStrip(raw.s)))
                      slug == DropNonSlug(SubSpaceRuns(low))
                  IN  [status |-> "ok",
                       value  |-> IF slug # << >> THEN PyStr(slug) ELSE None]

(***************************************************************************)
(* make_partition_values                                                   *)
(***************************************************************************)
\* an int beyond the platform time_t (|n| >= 2^63), e.g. 10**20
PyBigInt == [kind |-> "bigint"]
\* a finite float; int() truncates it to the integer (d, s)
PyFloat(d, s) == [kind |-> "float", cls |-> "fin", days |-> d, secs |-> s]

RECURSIVE DigitsValue(_, _)
DigitsValue(cs, acc) ==
    IF cs = << >> THEN acc
    ELSE DigitsValue(Tail(cs),
            10 * acc + (CHOOSE i \in 0..9 : Digits[i + 1] = Head(cs)))

\* int(text): surrounding blanks and one sign are accepted ('_' between
\* digits, which int() also accepts, does not occur in the inputs used)
ParseInt(cs) ==
    LET t      == StrStrip(cs)
        signed == t # << >> /\ Head(t) \in {"+", "-"}
        body   == IF signed THEN Tail(t) ELSE t
    IN  IF body # << >> /\ \A i \in 1..Len(body) : IsDigit(body[i])
        THEN [status |-> "ok",
              value  |-> PyNum(IF signed /\ Head(t) = "-"
                               THEN 0 - DigitsValue(body, 0)
                               ELSE DigitsValue(body, 0))]
        ELSE [status |-> "ValueError", value |-> None]

\* int(x)
PyIntOf(x) ==
    CASE x.kind = "int"    -> [status |-> "ok", value |-> x]
      [] x.kind = "bigint" -> [status |-> "ok", value |-> x]
      [] x.kind = "bool"   -> [status |-> "ok",
                               value |-> PyInt(0, IF x.b THEN 1 ELSE 0)]
      [] x.kind = "str"    -> ParseInt(x.s)
      [] x.kind = "float"  ->
            IF x.cls = "nan" THEN [status |-> "ValueError", value |-> None]
            ELSE IF x.cls = "inf"
                 THEN [status |-> "OverflowError", value |-> None]
                 ELSE [status |-> "ok", value |-> PyInt(x.days, x.secs)]
      [] OTHER             -> [status |-> "TypeError", value |-> None]

\* datetime: the proleptic Gregorian ordinal of 1970-01-01, and of 9999-12-31
EpochOrdinal == 719163
MaxOrdinal   == 3652059

\* datetime._ord2ymd, the year only
Ord2Year(ordinal) ==
    LET n0   == ordinal - 1
        n400 == n0 \div 146097
        r400 == n0 % 146097
        n100 == r400 \div 36524
        r100 == r400 % 36524
        n4   == r100 \div 1461
        r4   == r100 % 1461
        n1   == r4 \div 365
        year == n400 * 400 + 1 + n100 * 100 + n4 * 4 + n1
    IN  IF n1 = 4 \/ n100 = 4 THEN year - 1 ELSE year

\* datetime.utcfromtimestamp(ts).year
UtcYear(ts) ==
    IF ts.kind = "bigint" THEN [status |-> "OverflowError", value |-> 0]
    ELSE LET ordinal == ts.days + EpochOrdinal
         IN  IF ordinal < 1 \/ ordinal > MaxOrdinal
             THEN [status |-> "ValueError", value |-> 0]
             ELSE [status |-> "ok", value |-> Ord2Year(ordinal)]

Unknown == << "u","n","k","n","o","w","n" >>

\* what the except clause of make_partition_values catches
YearCaught == {"KeyError", "TypeError", "ValueError"}

\* row: the mapping (key -> value) of one record
make_partition_values(row) ==
    LET ts   == IF "created_t" \in DOMAIN row THEN PyIntOf(row["created_t"])
                ELSE [status |-> "KeyError", value |-> None]
        yr   == IF ts.status = "ok" THEN UtcYear(ts.value)
                ELSE [status |-> ts.status, value |-> 0]
        year == IF yr.status = "ok" THEN IntToText(yr.value) ELSE Unknown
        ctry == normalize_country(IF "countries_tags" \in DOMAIN row
                                  THEN row["countries_tags"] ELSE None)
    IN  IF yr.status # "ok" /\ yr.status \notin YearCaught
        THEN [status |-> yr.status, year |-> << >>, country |-> << >>]
        ELSE IF ctry.status # "ok"
             THEN [status |-> ctry.status, year |-> << >>, country |-> << >>]
             ELSE [status  |-> "ok",
                   year    |-> year,
                   country |-> IF Truthy(ctry.value) THEN PyStrOf(ctry.value)
                               ELSE Unknown]

(***************************************************************************)
(* ingestion/validate_ingest.py                                            *)
(***************************************************************************)
LIST_TYPES ==
    << <<"categories_tags", "list<string>">>,
       <<"brands_tags", "list<string>">>,
       <<"countries_tags", "list<string>">> >>

\* the outcome of a check: status "ok" or the exception raised, what was
\* being compared, the lists the message reports and the row total returned
VRes(status, what, missing, extras, errors, total) ==
    [status |-> status, what |-> what, missing |-> missing,
     extras |-> extras, errors |-> errors, total |-> total]

NotIn(seq, set) == SelectSeq(seq, LAMBDA c : c \notin set)

\* is_summary: the metadata has columns_types and partitions_types
is_summary(meta) == meta.shape = "summary"

\* check_summary: {"float32": "float", "Int64": "bigint", "string": "string"}
SummaryMapping(want) ==
    CASE want = "float32" -> "float"
      [] want = "Int64"   -> "bigint"
      [] want = "string"  -> "string"

\* str.lower() of a type name
TypeLower(t) ==
    CASE t = "FLOAT"  -> "float"
      [] t = "BIGINT" -> "bigint"
      [] t = "STRING" -> "string"
      [] OTHER        -> t

\* the 'if missing or extras' test of both checks, with the extras test lost
Mismatch_missing_only(missing, extras) == missing # << >>

\* if missing_cols or extra_cols / if missing_parts or extra_parts /
\* if missing or extras
Mismatch(missing, extras) == missing # << >> \/ extras # << >>

RECURSIVE SummaryTypeErrors(_, _)
SummaryTypeErrors(cols, dtypes) ==
    IF dtypes = << >> THEN << >>
    ELSE LET col == Head(dtypes)[1]
             exp == SummaryMapping(Head(dtypes)[2])
             act == TypeLower(DictGet(cols, col))
         IN  (IF act # exp THEN << col >> ELSE << >>)
             \o SummaryTypeErrors(cols, Tail(dtypes))

check_summary(meta) ==
    LET cols          == meta.cols
        parts         == meta.parts
        missing_cols  == NotIn(KEEP_COLS, SeqToSet(DictKeys(cols)))
        extra_cols    == NotIn(DictKeys(cols), SeqToSet(KEEP_COLS))
        missing_parts == NotIn(PART_COLS, SeqToSet(DictKeys(parts)))
        extra_parts   == NotIn(DictKeys(parts), SeqToSet(PART_COLS))
    IN  IF Mismatch(missing_cols, extra_cols)
        THEN VRes("ValueError", "cols", missing_cols, extra_cols, << >>, 0)
        ELSE IF Mismatch(missing_parts, extra_parts)
        THEN VRes("ValueError", "parts", missing_parts, extra_parts, << >>, 0)
        ELSE LET errors == SummaryTypeErrors(cols, DTYPES)
             IN  IF errors # << >>
                 THEN VRes("ValueError", "types", << >>, << >>, errors, 0)
                 ELSE VRes("ok", "none", << >>, << >>, << >>, 0)

\* _file_fragments: a Table yields itself, a dict or an object with a
\* file_metadata dict yields its values, anything else cannot be iterated
CanIterate(meta) == meta.shape \in {"table", "dict", "file_metadata"}

\* the loop of check_detailed: total of the integer num_rows
RECURSIVE TotalRows(_)
TotalRows(frags) ==
    IF frags = << >> THEN 0
    ELSE (IF Head(frags).rows.has THEN Head(frags).rows.n ELSE 0)
         + TotalRows(Tail(frags))

\* the loop of check_detailed: the first fragment schema that is a pa.Schema
RECURSIVE FirstSchema(_)
FirstSchema(frags) ==
    IF frags = << >> THEN [has |-> FALSE, fields |-> << >>]
    ELSE IF Head(frags).schema.has THEN Head(frags).schema
         ELSE FirstSchema(Tail(frags))

\* the row test of check_detailed taken as 'total < 0'
RowCountTooLow_negative(total) == total < 0

\* if total < 1
RowCountTooLow(total) == total < 1

\* basic = {"float32": pa.float32(), "Int64": pa.int64(), "string": pa.string()}
BasicType(d) ==
    CASE d = "float32" -> "float"
      [] d = "Int64"   -> "int64"
      [] d = "string"  -> "string"

RECURSIVE UpdateAll(_, _)
UpdateAll(dict, pairs) ==
    IF pairs = << >> THEN dict
    ELSE UpdateAll(DictSet(dict, Head(pairs)[1], Head(pairs)[2]), Tail(pairs))

expected_types ==
    UpdateAll([i \in 1..Len(DTYPES) |->
                  << DTYPES[i][1], BasicType(DTYPES[i][2]) >>],
              LIST_TYPES)

RECURSIVE DetailedTypeErrors(_)
DetailedTypeErrors(fields) ==
    IF fields = << >> THEN << >>
    ELSE LET name == Head(fields)[1]
         IN  (IF DictHas(expected_types, name)
                 /\ Head(fields)[2] # DictGet(expected_types, name)
              THEN << name >> ELSE << >>)
             \o DetailedTypeErrors(Tail(fields))

check_detailed(meta) ==
    IF ~CanIterate(meta)
    THEN VRes("RuntimeError", "fragments", << >>, << >>, << >>, 0)
    ELSE
    LET total        == TotalRows(meta.frags)
        first_schema == FirstSchema(meta.frags)
        actual       == DictKeys(first_schema.fields)
        expected     == KEEP_COLS \o PART_COLS
        missing      == NotIn(expected, SeqToSet(actual))
        extras       == NotIn(actual, SeqToSet(expected))
        errs         == DetailedTypeErrors(first_schema.fields)
    IN  IF RowCountTooLow(total)
        THEN VRes("ValueError", "rows", << >>, << >>, << >>, total)
        ELSE IF ~first_schema.has
        THEN VRes("RuntimeError", "schema", << >>, << >>, << >>, total)
        ELSE IF Mismatch(missing, extras)
        THEN VRes("ValueError", "cols", missing, extras, << >>, total)
        ELSE IF errs # << >>
        THEN VRes("ValueError", "types", << >>, << >>, errs, total)
        ELSE VRes("ok", "none", << >>, << >>, << >>, total)

\* an except clause that names ValueError only
Caught_ValueError_only(status) == status = "ValueError"

\* main: 'except Exception' catches every error the try block raises
Caught(status) == status # "ok"

(***************************************************************************)
(* data_prep/cleaning.py                                                   *)
(*                                                                         *)
(* A table is a list of column names and a list of rows; a row keeps its   *)
(* index label (id) and its cells.                                         *)
(***************************************************************************)
VALID_GRADES == {<< "a" >>, << "b" >>, << "c" >>, << "d" >>, << "e" >>}

DROP_COLS ==
    << "categories_tags", "brands_tags", "countries_tags", "serving_size",
       "created_t", "energy_100g", "fiber_100g" >>

Table(columns, rows) == [columns |-> columns, rows |-> rows]
EmptyTable == Table(<< >>, << >>)

IntValue(x) == x.days * 86400 + x.secs

\* the range test with the limits themselves taken as outliers
OutOfRange_closed(x) ==
    x.kind = "int" /\ (IntValue(x) >= 100 \/ IntValue(x) <= 0)

\* (df_clean[col] > 100) | (df_clean[col] < 0); NaN compares False
OutOfRange(x) == x.kind = "int" /\ (IntValue(x) > 100 \/ IntValue(x) < 0)

\* .isin(VALID_GRADES)
IsValidGrade(x) == x.kind = "str" /\ x.s \in VALID_GRADES

\* the for loop of clean over cols; st holds df_clean's rows and the loop's
\* variables mask (the labels selected) and outliers, unbound before the
\* first iteration
RECURSIVE CleanLoop(_, _)
CleanLoop(cols, st) ==
    IF cols = << >> THEN st
    ELSE LET col  == Head(cols)
             mask == {r.id : r \in {q \in SeqToSet(st.rows) :
                                        OutOfRange(q.cells[col])}}
         IN  CleanLoop(Tail(cols),
                [rows     |-> SelectSeq(st.rows, LAMBDA r : r.id \notin mask),
                 mask     |-> mask,
                 outliers |-> SelectSeq(st.rows, LAMBDA r : r.id \in mask),
                 bound    |-> TRUE])

\* df.drop(columns=...) / a column selection: the cells of the kept columns
Project(rows, columns) ==
    [i \in 1..Len(rows) |->
        [id |-> rows[i].id,
         cells |-> [c \in SeqToSet(columns) |-> rows[i].cells[c]]]]

\* reset_index(drop=True)
ResetIndex(rows) ==
    [i \in 1..Len(rows) |-> [id |-> i - 1, cells |-> rows[i].cells]]

CleanRes(status, table, audit) ==
    [status |-> status, table |-> table, audit |-> audit]

\* clean(df) with _WRITE_OUTLIERS = flag; audit is the list of tables
\* written to the outlier log
clean(df, flag) ==
    IF \E c \in SeqToSet(DROP_COLS) : c \notin SeqToSet(df.columns)
    THEN CleanRes("KeyError", EmptyTable, << >>)
    ELSE
    LET kept  == NotIn(df.columns, SeqToSet(DROP_COLS))
        cols  == SelectSeq(kept, EndsWith100g)
        st    == CleanLoop(cols,
                    [rows |-> Project(df.rows, kept), mask |-> {},
                     outliers |-> << >>, bound |-> FALSE])
    IN  IF TARGET \notin SeqToSet(kept)
        THEN CleanRes("KeyError", EmptyTable, << >>)
        ELSE
        LET graded == SelectSeq(st.rows,
                                LAMBDA r : IsValidGrade(r.cells[TARGET]))
        IN  IF flag /\ ~st.bound
            THEN CleanRes("NameError", EmptyTable, << >>)
            ELSE CleanRes("ok",
                    Table(kept, ResetIndex(graded)),
                    IF flag /\ st.outliers # << >>
                    THEN << Table(kept, SelectSeq(graded,
                                      LAMBDA r : r.id \in st.mask)) >>
                    ELSE << >>)

(***************************************************************************)
(* ingestion/ingest_nutrisage.py                                           *)
(*                                                                         *)
(* A frame is a list of column names, a list of rows (column -> cell) and, *)
(* once cast, the type of each column as the sink stores it.               *)
(***************************************************************************)
float_cols ==
    << "energy-kcal_100g", "fat_100g", "saturated-fat_100g",
       "carbohydrates_100g", "sugars_100g", "fiber_100g",
       "proteins_100g", "sodium_100g", "fruits-vegetables-nuts_100g" >>

int_cols ==
    << "additives_n", "ingredients_from_palm_oil_n",
       "ingredients_that_may_be_from_palm_oil_n" >>

tag_cols == << "categories_tags", "brands_tags", "countries_tags" >>

string_cols == << "main_category", "serving_size", "nutrition_grade_fr" >>

Frame(columns, rows, types) ==
    [columns |-> columns, rows |-> rows, types |-> types]
EmptyFrame == Frame(<< >>, << >>, << >>)

\* json.loads(l): a line that is not JSON raises JSONDecodeError
BadLine == [kind |-> "badjson"]

\* lines 86-88: one record per line, columns in KEEP_COLS order
RECURSIVE FlattenLines(_)
FlattenLines(lines) ==
    IF lines = << >> THEN [status |-> "ok", rows |-> << >>]
    ELSE IF Head(lines) = BadLine
         THEN [status |-> "JSONDecodeError", rows |-> << >>]
         ELSE LET rec  == extract_columns(Head(lines))
                  rest == FlattenLines(Tail(lines))
              IN  IF rec.status # "ok"
                  THEN [status |-> rec.status, rows |-> << >>]
                  ELSE IF rest.status # "ok" THEN rest
                  ELSE [status |-> "ok",
                        rows |-> << [c \in SeqToSet(DictKeys(rec.value)) |->
                                        DictGet(rec.value, c)] >>
                                 \o rest.rows]

\* lines 91-93: make_partition_values on every row, then the two columns
RECURSIVE PartitionRows(_)
PartitionRows(rows) ==
    IF rows = << >> THEN [status |-> "ok", rows |-> << >>]
    ELSE LET pv   == make_partition_values(Head(rows))
             rest == PartitionRows(Tail(rows))
         IN  IF pv.status # "ok" THEN [status |-> pv.status, rows |-> << >>]
             ELSE IF rest.status # "ok" THEN rest
             ELSE [status |-> "ok",
                   rows |-> << [c \in DOMAIN Head(rows) \cup {"year", "country"} |->
                                   IF c = "year" THEN PyStr(pv.year)
                                   ELSE IF c = "country" THEN PyStr(pv.country)
                                   ELSE Head(rows)[c]] >>
                            \o rest.rows]

\* df[labels]: the labels that are not columns of the frame (KeyError)
MissingLabels(labels, columns) == NotIn(labels, SeqToSet(columns))

\* pd.to_numeric(s, errors="coerce"), one cell
ToNumeric(x) ==
    CASE x.kind \in {"int", "float"} -> x
      [] x.kind = "bool" -> PyInt(0, IF x.b THEN 1 ELSE 0)
      [] x.kind = "str"  -> IF ParseInt(x.s).status = "ok"
                            THEN ParseInt(x.s).value ELSE PyNaN
      [] OTHER           -> PyNaN

\* .round().astype("Int64"): a missing value becomes <NA>
ToInt64(x) == IF ToNumeric(x) = PyNaN THEN None ELSE ToNumeric(x)

\* pd.isna / pd.notna of a scalar
IsNA(x) == x = None \/ x = PyNaN

\* _to_str_list
_to_str_list(x) ==
    IF x.kind = "list"
    THEN PyList([i \in 1..Len(SelectSeq(x.l, LAMBDA e : ~IsNA(e))) |->
                    PyStr(PyStrOf(SelectSeq(x.l, LAMBDA e : ~IsNA(e))[i]))])
    ELSE IF IsNA(x) \/ x = PyStr(<< >>) THEN PyList(<< >>)
    ELSE PyList(<< PyStr(PyStrOf(x)) >>)

\* .astype("string").replace("", pd.NA)
ToStringNA(x) ==
    IF IsNA(x) THEN None
    ELSE IF PyStrOf(x) = << >> THEN None ELSE PyStr(PyStrOf(x))

\* the cell of column col after steps 1-4
CoerceCell(col, x) ==
    IF col \in SeqToSet(float_cols) THEN ToNumeric(x)
    ELSE IF col \in SeqToSet(int_cols) THEN ToInt64(x)
    ELSE IF col \in SeqToSet(tag_cols) THEN _to_str_list(x)
    ELSE IF col \in SeqToSet(string_cols) THEN ToStringNA(x)
    ELSE IF col = "created_t" THEN ToInt64(x)
    ELSE x

\* the type the sink stores for column col after steps 1-5
StoredType(col) ==
    IF col \in SeqToSet(float_cols) THEN "float"
    ELSE IF col \in SeqToSet(int_cols) \/ col = "created_t" THEN "int64"
    ELSE IF col \in SeqToSet(tag_cols) THEN "list<string>"
    ELSE IF DictHas(DTYPES, col) THEN BasicType(DTypeOfCol(col))
    ELSE "string"

\* the column selections of lines 101, 111, 127, 130-137 and 141, in order
CoerceSteps ==
    << float_cols, int_cols,
       << tag_cols[1] >>, << tag_cols[2] >>, << tag_cols[3] >>,
       << "main_category" >>, << "serving_size" >>, << "nutrition_grade_fr" >>,
       << "created_t" >>,
       KEEP_COLS \o << "year", "country" >> >>

\* a selection that tolerates labels the frame lacks
FirstMissing_lenient(steps, columns) == << >>

\* the labels of the first selection that names a column the frame lacks
RECURSIVE FirstMissing(_, _)
FirstMissing(steps, columns) ==
    IF steps = << >> THEN << >>
    ELSE IF MissingLabels(Head(steps), columns) # << >>
         THEN MissingLabels(Head(steps), columns)
         ELSE FirstMissing(Tail(steps), columns)

\* lines 95-143: every selection must name columns of the frame, else
\* KeyError; the result is the frame df[KEEP_COLS + ["year", "country"]]
Coerce(df) ==
    LET final   == KEEP_COLS \o << "year", "country" >>
        missing == FirstMissing(CoerceSteps, df.columns)
    IN  IF missing # << >>
        THEN [status |-> "KeyError", missing |-> missing, df |-> EmptyFrame]
        ELSE [status |-> "ok", missing |-> << >>,
              df |-> Frame(final,
                        [i \in 1..Len(df.rows) |->
                            [c \in SeqToSet(final) |->
                                CoerceCell(c, df.rows[i][c])]],
                        [i \in 1..Len(final) |->
                            << final[i], StoredType(final[i]) >>])]

\* the fragments that the sink's metadata holds: one per appended batch
MetaOfSink(sink) ==
    [shape |-> "dict", cols |-> << >>, parts |-> << >>,
     frags |-> [i \in 1..Len(sink) |->
                   [rows   |-> [has |-> TRUE, n |-> Len(sink[i].rows)],
                    schema |-> [has |-> TRUE, fields |-> sink[i].types]]]]

(***************************************************************************)
(* Inputs                                                                  *)
(***************************************************************************)
MaxTextLen == 3

Alphabet == {"u", "s", "E", ":", "-", " ", "1", "!", ","}

RECURSIVE TextsOfLen(_)
TextsOfLen(n) ==
    IF n = 0 THEN {<< >>}
    ELSE LET rest == TextsOfLen(n - 1)
         IN  {<< c >> \o t : c \in Alphabet, t \in rest}

UnitedStates  == << "u","n","i","t","e","d","-","s","t","a","t","e","s" >>
EnUnitedStates ==
    << "e","n",":","U","n","i","t","e","d"," ","S","t","a","t","e","s" >>

\* marks a key that the input object does not have
Absent == [kind |-> "absent"]

\* the mapping with the keys of opts whose option is not Absent
MkDict(opts) ==
    [k \in {j \in DOMAIN opts : opts[j] # Absent} |-> opts[k]]

CountryInputs ==
    {Absent, None, PyList(<< >>), PyList(<< None >>), PyList(<< PyNum(5) >>),
     PyNum(0), PyNum(5), PyBool(TRUE), PyBool(FALSE), PyNaN,
     PyStr(UnitedStates), PyList(<< PyStr(EnUnitedStates) >>)}

\* countries_tags holding a text of n letters, bare or as a one-element list
CountryTexts(n) ==
    {IF l THEN PyList(<< PyStr(t) >>) ELSE PyStr(t) :
        t \in TextsOfLen(n), l \in BOOLEAN}

\* day numbers (created_t div 86400) around the limits of datetime:
\* 1970, 2020, 1969, year 702, years 1 and 9999 and one day beyond each
DayInputs == {0, 18262, 0 - 1, 0 - 462963,
              0 - 719162, 0 - 719163, 2932896, 2932897}

CreatedInputs ==
    {Absent, None, PyNaN, PyInf, PyBigInt, PyBool(TRUE), PyList(<< >>),
     PyFloat(0, 1), PyStr(<< >>), PyStr(<< "1", "2" >>),
     PyStr(<< " ", "-", "1" >>), PyStr(<< "1", "!" >>), PyStr(Unknown)}
    \cup {PyInt(d, s) : d \in DayInputs, s \in {0, 86399}}

MkRow(c, t) ==
    MkDict([k \in {"created_t", "countries_tags"} |->
               IF k = "created_t" THEN c ELSE t])

RowInputs ==
    {MkRow(c, t) : c \in CreatedInputs,
                   t \in {Absent, PyList(<< None >>),
                          PyList(<< PyStr(EnUnitedStates) >>)}}
    \cup {MkRow(c, t) : c \in {Absent, PyInt(18262, 0)}, t \in CountryInputs}

TextRows(n) ==
    {MkRow(c, t) : c \in {Absent, PyInt(18262, 0)}, t \in CountryTexts(n)}

\* objects given to extract_columns
NutrimentsInputs ==
    {Absent, None, PyStr(<< "x" >>), PyList(<< >>), PyNum(3)}
    \cup {PyDict(MkDict(o)) :
            o \in [{"fat_100g", "other"} ->
                     {Absent, PyNum(5), PyStr(<< "1" >>)}]}

ObjInputs ==
    {None, PyNum(3), PyStr(<< "x" >>), PyList(<< >>)}
    \cup {PyDict(MkDict(
            [k \in {"nutriments", "product_name", "fat_100g", "extra_key"} |->
                CASE k = "nutriments"   -> n
                  [] k = "product_name" -> p
                  [] k = "fat_100g"     -> f
                  [] OTHER              -> e])) :
            n \in NutrimentsInputs,
            p \in {Absent, None, PyStr(<< "x" >>)},
            f \in {Absent, PyNum(9)},
            e \in {Absent, PyList(<< >>)}}

\* metadata given to the validator
MaxFrags == 2
MaxRows  == 2

\* the summary metadata of a dataset that follows the contract
SummaryTypeOf(col) ==
    IF DictHas(DTYPES, col) THEN SummaryMapping(DTypeOfCol(col))
    ELSE IF col = "product_name" THEN "string" ELSE "array<string>"

\* the file schema of a dataset that follows the contract
ArrowTypeOf(col) ==
    IF DictHas(expected_types, col) THEN DictGet(expected_types, col)
    ELSE "string"

\* cols without the names in removed, with the types of override, then extras
VaryCols(cols, removed, override, extras) ==
    LET kept == SelectSeq(cols, LAMBDA c : c[1] \notin removed)
    IN  [i \in 1..Len(kept) |->
            IF kept[i][1] \in DOMAIN override
            THEN << kept[i][1], override[kept[i][1]] >> ELSE kept[i]]
        \o extras

SummaryCols == [i \in 1..Len(KEEP_COLS) |->
                   << KEEP_COLS[i], SummaryTypeOf(KEEP_COLS[i]) >>]
ArrowFields == [i \in 1..Len(KEEP_COLS \o PART_COLS) |->
                   << (KEEP_COLS \o PART_COLS)[i],
                      ArrowTypeOf((KEEP_COLS \o PART_COLS)[i]) >>]

NoOverride == [k \in {} |-> "none"]

Meta(shape, cols, parts, frags) ==
    [shape |-> shape, cols |-> cols, parts |-> parts, frags |-> frags]

SummaryInputs ==
    {Meta("summary", VaryCols(SummaryCols, r, o, e), p, << >>) :
        r \in SUBSET {"fat_100g", "product_name"},
        o \in {NoOverride, [k \in {"fat_100g"} |-> "double"],
               [k \in {"created_t"} |-> "BIGINT"],
               [k \in {"created_t"} |-> "int"]},
        e \in {<< >>, << <<"categories_tags", "array<string>">> >>,
               << <<"additives_n", "int">>,
                  <<"categories_tags", "array<string>">> >>},
        p \in {<< <<"year", "string">>, <<"country", "string">> >>,
               << <<"year", "string">> >>,
               << <<"year", "string">>, <<"country", "string">>,
                  <<"month", "string">> >>}}

\* no schema, the contract's schema, a column missing, a column too many,
\* a nutrient stored as double, a tag list stored as list<null>
SchemaInputs ==
    {[has |-> FALSE, fields |-> << >>]}
    \cup {[has |-> TRUE, fields |-> f] :
            f \in {ArrowFields,
                   VaryCols(ArrowFields, {"fat_100g"}, NoOverride, << >>),
                   VaryCols(ArrowFields, {}, NoOverride,
                            << <<"categories_tags", "list<string>">> >>),
                   VaryCols(ArrowFields, {},
                            [k \in {"fat_100g"} |-> "double"], << >>),
                   VaryCols(ArrowFields, {},
                            [k \in {"brands_tags"} |-> "list<null>"], << >>)}}

RowsInputs ==
    {[has |-> FALSE, n |-> 0]} \cup {[has |-> TRUE, n |-> n] : n \in 0..MaxRows}

FragInputs == [rows : RowsInputs, schema : SchemaInputs]

RECURSIVE FragSeqs(_)
FragSeqs(n) ==
    IF n = 0 THEN {<< >>}
    ELSE LET rest == FragSeqs(n - 1)
         IN  {<< f >> \o fs : f \in FragInputs, fs \in rest}

\* the fragment metadata with n fragments
DetailedInputs(n) ==
    {Meta(sh, << >>, << >>, fs) :
        sh \in {"dict", "file_metadata"}, fs \in FragSeqs(n)}

OtherInputs ==
    {Meta("table", << >>, << >>, << f >>) :
        f \in {g \in FragInputs : g.rows.has /\ g.schema.has}}
    \cup {Meta("other", << >>, << >>, << >>)}

\* tables given to clean
MaxCleanRows == 2

NutrientInputs == {PyNum(0 - 1), PyNum(0), PyNum(100), PyNum(101), PyNaN}
GradeInputs    == {PyStr(<< "a" >>), PyStr(<< "?" >>), None}

\* a cell of a column: nutrient and grade cells vary, the dropped
\* energy_100g holds a value far above 100, the others a text
CellInputs(col) ==
    IF col = TARGET THEN GradeInputs
    ELSE IF col = "energy_100g" THEN {PyNum(2000)}
    ELSE IF col = "protein_100g" THEN {PyNum(0), PyNum(101), PyNaN}
    ELSE IF EndsWith100g(col) /\ col # "fiber_100g" THEN NutrientInputs
    ELSE {PyStr(<< "x" >>)}

RECURSIVE CellsInputs(_)
CellsInputs(columns) ==
    IF columns = << >> THEN {<< >>}
    ELSE LET rest == CellsInputs(Tail(columns))
         IN  {(Head(columns) :> v) @@ f :
                 v \in CellInputs(Head(columns)), f \in rest}

\* the lists of n rows with cells from cellset, labelled first, first+1, ...
RECURSIVE RowSeqs(_, _, _)
RowSeqs(cellset, n, first) ==
    IF n = 0 THEN {<< >>}
    ELSE LET rest == RowSeqs(cellset, n - 1, first + 1)
         IN  {<< [id |-> first, cells |-> f] >> \o rs :
                 f \in cellset, rs \in rest}

ColumnInputs ==
    {d \o n \o t :
        d \in {DROP_COLS, SubSeq(DROP_COLS, 1, Len(DROP_COLS) - 1)},
        n \in {<< >>, << "sugar_100g" >>, << "sugar_100g", "protein_100g" >>},
        t \in {<< TARGET >>, << >>}}

\* the tables with the given columns and n rows
TablesOver(columns, n) ==
    {Table(columns, rs) : rs \in RowSeqs(CellsInputs(columns), n, 0)}

\* files given to stream_ingest
MaxLines     == 3
MaxChunkRows == 2

\* a product with every field, an empty object, a product whose first
\* countries tag is null, and a line that is not JSON
FullProduct ==
    PyDict(MkDict(
      [k \in {"nutriments", "product_name", "main_category", "brands_tags",
              "countries_tags", "serving_size", "created_t",
              "nutrition_grade_fr"} |->
         CASE k = "nutriments" ->
                 PyDict([c \in SeqToSet(NUTRIMENTS_KEY) |->
                            IF c = "fat_100g" THEN PyStr(<< "1", "!" >>)
                            ELSE PyNum(5)])
           [] k = "brands_tags"    -> PyList(<< PyStr(<< "u" >>) >>)
           [] k = "countries_tags" -> PyList(<< PyStr(EnUnitedStates) >>)
           [] k = "created_t"      -> PyInt(18262, 0)
           [] k = "serving_size"   -> PyStr(<< >>)
           [] k = "nutrition_grade_fr" -> PyStr(<< "e" >>)
           [] OTHER                -> PyStr(<< "s" >>)]))

LineInputs ==
    {FullProduct, PyDict(<< >>),
     PyDict([k \in {"countries_tags"} |-> PyList(<< None >>)]), BadLine}

RECURSIVE LineSeqs(_)
LineSeqs(n) ==
    IF n = 0 THEN {<< >>}
    ELSE LET rest == LineSeqs(n - 1)
         IN  {<< l >> \o ls : l \in LineInputs, ls \in rest}

(***************************************************************************)
(* Specification of extract_columns                                        *)
(***************************************************************************)
NoResult == [status |-> "none"]

IdleFlatten == fl_pc = "idle" /\ fl_obj = None /\ fl_out = NoResult
IdlePart    == pv_pc = "idle" /\ pv_row = << >> /\ pv_out = NoResult
                 /\ nc_out = NoResult
IdleClean   == c_pc = "idle" /\ c_df = EmptyTable /\ c_flag = FALSE
                 /\ c_out = NoResult
NoError     == [status |-> "none", where |-> "none"]
IdleIngest  == i_pc = "idle" /\ i_input = << >> /\ i_chunk_rows = 1
                 /\ i_pos = 0 /\ i_lines = << >> /\ i_df = EmptyFrame
                 /\ i_sink = << >> /\ i_rows_written = 0 /\ i_err = NoError
                 /\ i_vres = NoResult
IdleValid   == v_pc = "idle" /\ v_meta = Meta("other", << >>, << >>, << >>)
                 /\ v_res = NoResult /\ v_count = 0 - 1 /\ v_exit = 0 - 1
                 /\ v_uncaught = FALSE

InitFlatten ==
    /\ fl_pc = "start" /\ fl_obj \in ObjInputs /\ fl_out = NoResult
    /\ IdlePart /\ IdleValid /\ IdleClean /\ IdleIngest

Flatten ==
    /\ fl_pc = "start"
    /\ fl_out' = extract_columns(fl_obj)
    /\ fl_pc' = "done"
    /\ UNCHANGED <<fl_obj, partVars, validVars, cleanVars, ingestVars>>

NextFlatten == Flatten

SpecFlatten == InitFlatten /\ [][NextFlatten]_vars

(***************************************************************************)
(* Specification of make_partition_values and normalize_country            *)
(***************************************************************************)
InitPart ==
    /\ pv_pc = "start" /\ pv_out = NoResult
    /\ \/ pv_row \in RowInputs
       \/ \E n \in 0..MaxTextLen : pv_row \in TextRows(n)
    /\ nc_out = NoResult
    /\ IdleFlatten /\ IdleValid /\ IdleClean /\ IdleIngest

Resolve ==
    /\ pv_pc = "start"
    /\ pv_out' = make_partition_values(pv_row)
    /\ pv_pc' = "resolved"
    /\ UNCHANGED <<pv_row, nc_out, flattenVars, validVars, cleanVars, ingestVars>>

\* the slug that normalize_country returned for the row's countries_tags
RowSlug ==
    normalize_country(IF "countries_tags" \in DOMAIN pv_row
                      THEN pv_row["countries_tags"] ELSE None)

\* normalize_country applied to a slug it returned
Renormalize ==
    /\ pv_pc = "resolved"
    /\ RowSlug.status = "ok" /\ RowSlug.value # None
    /\ nc_out' = normalize_country(RowSlug.value)
    /\ pv_pc' = "renormalized"
    /\ UNCHANGED <<pv_row, pv_out, flattenVars, validVars, cleanVars, ingestVars>>

NextPart == Resolve \/ Renormalize

SpecPart == InitPart /\ [][NextPart]_vars

(***************************************************************************)
(* Specification of validate_ingest.main                                   *)
(***************************************************************************)
InitValid ==
    /\ v_pc = "start" /\ v_res = NoResult
    /\ \/ v_meta \in SummaryInputs \cup OtherInputs
       \/ \E n \in 0..MaxFrags : v_meta \in DetailedInputs(n)
    /\ v_count = 0 - 1 /\ v_exit = 0 - 1 /\ v_uncaught = FALSE
    /\ IdleFlatten /\ IdlePart /\ IdleClean /\ IdleIngest

\* the end of main: return (status 0), or the except clause and sys.exit(1);
\* an exception that no clause catches ends the interpreter with status 1
Finish(res) ==
    /\ v_res' = res
    /\ v_pc' = "exited"
    /\ v_exit' = IF res.status = "ok" THEN 0 ELSE 1
    /\ v_uncaught' = (res.status # "ok" /\ ~Caught(res.status))

ReadMetadata ==
    /\ v_pc = "start"
    /\ v_pc' = "check"
    /\ UNCHANGED <<v_meta, v_res, v_count, v_exit, v_uncaught,
                   flattenVars, partVars, cleanVars, ingestVars>>

\* wr.s3.read_parquet_metadata raises (no such bucket, no credentials, ...)
ReadMetadataFails ==
    /\ v_pc = "start"
    /\ Finish(VRes("ClientError", "read", << >>, << >>, << >>, 0))
    /\ UNCHANGED <<v_meta, v_count, flattenVars, partVars, cleanVars, ingestVars>>

CheckSummary ==
    /\ v_pc = "check" /\ is_summary(v_meta)
    /\ LET res == check_summary(v_meta)
       IN  IF res.status = "ok"
           THEN v_res' = res /\ v_pc' = "count"
                /\ UNCHANGED <<v_exit, v_uncaught>>
           ELSE Finish(res)
    /\ UNCHANGED <<v_meta, v_count, flattenVars, partVars, cleanVars, ingestVars>>

\* count_via_dataset returns the row count of the dataset, then main returns
CountViaDataset ==
    /\ v_pc = "count"
    /\ \E n \in 0..MaxRows :
          /\ v_count' = n
          /\ Finish([v_res EXCEPT !.total = n])
    /\ UNCHANGED <<v_meta, flattenVars, partVars, cleanVars, ingestVars>>

CountFails ==
    /\ v_pc = "count"
    /\ Finish(VRes("OSError", "count", << >>, << >>, << >>, 0))
    /\ UNCHANGED <<v_meta, v_count, flattenVars, partVars, cleanVars, ingestVars>>

CheckDetailed ==
    /\ v_pc = "check" /\ ~is_summary(v_meta)
    /\ Finish(check_detailed(v_meta))
    /\ UNCHANGED <<v_meta, v_count, flattenVars, partVars, cleanVars, ingestVars>>

NextValid ==
    \/ ReadMetadata \/ ReadMetadataFails
    \/ CheckSummary \/ CountViaDataset \/ CountFails
    \/ CheckDetailed

SpecValid == InitValid /\ [][NextValid]_vars

(***************************************************************************)
(* Specification of cleaning.clean                                         *)
(***************************************************************************)
InitClean ==
    /\ c_pc = "start" /\ c_flag \in BOOLEAN
    /\ \E cs \in ColumnInputs, n \in 0..MaxCleanRows :
          c_df \in TablesOver(cs, n)
    /\ c_out = NoResult
    /\ IdleFlatten /\ IdlePart /\ IdleValid /\ IdleIngest

Clean ==
    /\ c_pc = "start"
    /\ c_out' = clean(c_df, c_flag)
    /\ c_pc' = "done"
    /\ UNCHANGED <<c_df, c_flag, flattenVars, partVars, validVars, ingestVars>>

NextClean == Clean

SpecClean == InitClean /\ [][NextClean]_vars

(***************************************************************************)
(* Specification of stream_ingest, followed by the detailed validation of  *)
(* what it wrote                                                           *)
(***************************************************************************)
InitIngest ==
    /\ i_pc = "Reading" /\ i_chunk_rows \in 1..MaxChunkRows
    /\ \E n \in 0..MaxLines : i_input \in LineSeqs(n)
    /\ i_pos = 0 /\ i_lines = << >> /\ i_df = EmptyFrame
    /\ i_sink = << >> /\ i_rows_written = 0 /\ i_err = NoError
    /\ i_vres = NoResult
    /\ IdleFlatten /\ IdlePart /\ IdleValid /\ IdleClean

Min(a, b) == IF a < b THEN a ELSE b

others == <<flattenVars, partVars, validVars, cleanVars>>

\* lines 81-83: lines = list(islice(fh, chunk_rows)); if not lines: break
ReadChunk ==
    /\ i_pc = "Reading"
    /\ LET last == Min(i_pos + i_chunk_rows, Len(i_input))
       IN  /\ i_lines' = SubSeq(i_input, i_pos + 1, last)
           /\ i_pos' = last
           /\ i_pc' = IF last = i_pos THEN "Done" ELSE "Flattening"
    /\ UNCHANGED <<i_input, i_chunk_rows, i_df, i_sink, i_rows_written,
                   i_err, i_vres, others>>

\* lines 86-88
FlattenChunk ==
    /\ i_pc = "Flattening"
    /\ LET recs == FlattenLines(i_lines)
       IN  IF recs.status = "ok"
           THEN /\ i_df' = Frame(KEEP_COLS, recs.rows, << >>)
                /\ i_pc' = "Partitioning"
                /\ i_err' = i_err
           ELSE /\ i_df' = i_df
                /\ i_pc' = "Failed"
                /\ i_err' = [status |-> recs.status, where |-> "flatten"]
    /\ UNCHANGED <<i_input, i_chunk_rows, i_pos, i_lines, i_sink,
                   i_rows_written, i_vres, others>>

\* lines 91-93
PartitionChunk ==
    /\ i_pc = "Partitioning"
    /\ LET parts == PartitionRows(i_df.rows)
       IN  IF parts.status = "ok"
           THEN /\ i_df' = Frame(i_df.columns \o << "year", "country" >>,
                                 parts.rows, << >>)
                /\ i_pc' = "Coercing"
                /\ i_err' = i_err
           ELSE /\ i_df' = i_df
                /\ i_pc' = "Failed"
                /\ i_err' = [status |-> parts.status, where |-> "partition"]
    /\ UNCHANGED <<i_input, i_chunk_rows, i_pos, i_lines, i_sink,
                   i_rows_written, i_vres, others>>

\* lines 95-148: the coercion steps, the final column order, then the
\* append to the sink (write_parquet), which may fail, and the running total
CoerceAndWrite ==
    /\ i_pc = "Coercing"
    /\ \E sink_ok \in BOOLEAN :
          LET co == Coerce(i_df)
          IN  /\ i_df' = IF co.status = "ok" THEN co.df ELSE i_df
              /\ i_err' = IF co.status # "ok"
                          THEN [status |-> co.status, where |-> "coerce"]
                          ELSE IF ~sink_ok
                          THEN [status |-> "SinkWriteError", where |-> "write"]
                          ELSE i_err
              /\ i_sink' = IF co.status = "ok" /\ sink_ok
                           THEN Append(i_sink, co.df) ELSE i_sink
              /\ i_rows_written' = IF co.status = "ok" /\ sink_ok
                                   THEN i_rows_written + Len(co.df.rows)
                                   ELSE i_rows_written
              /\ i_pc' = IF co.status = "ok" /\ sink_ok
                         THEN "Reading" ELSE "Failed"
    /\ UNCHANGED <<i_input, i_chunk_rows, i_pos, i_lines, i_vres, others>>

\* validate_ingest.check_detailed on the metadata of what the run wrote
ValidateWritten ==
    /\ i_pc \in {"Done", "Failed"}
    /\ i_vres' = check_detailed(MetaOfSink(i_sink))
    /\ i_pc' = "Validated"
    /\ UNCHANGED <<i_input, i_chunk_rows, i_pos, i_lines, i_df, i_sink,
                   i_rows_written, i_err, others>>

NextIngest ==
    \/ ReadChunk \/ FlattenChunk \/ PartitionChunk \/ CoerceAndWrite
    \/ ValidateWritten

SpecIngest == InitIngest /\ [][NextIngest]_vars

(***************************************************************************)
\* Every step of NextIngest moves i_pc, and one is enabled exactly when the
\* run has not been validated yet.  The run is one thread that keeps going,
\* so the position keeps advancing until then.
Advance ==
    /\ i_pc \notin {"Validated", "idle"}
    /\ i_pc' \in {"Reading", "Flattening", "Partitioning", "Coercing",
                  "Done", "Failed", "Validated"} \ {i_pc}

SpecIngestFair == SpecIngest /\ WF_i_pc(Advance)

(* C1 - extract_columns returns, for every raw object, without raising, a  *)
(* mapping with exactly one entry per column of KEEP_COLS, in KEEP_COLS    *)
(* order.                                                                  *)
(***************************************************************************)
C1_FlattenTotal ==
    fl_pc = "done" =>
        /\ fl_out.status = "ok"
        /\ DictKeys(fl_out.value) = KEEP_COLS

\* a flattened object whose 'nutriments' is not a keyed container
C1_Witness ==
    /\ fl_pc = "done"
    /\ fl_obj.kind = "dict"
    /\ "nutriments" \in DOMAIN fl_obj.d
    /\ fl_obj.d["nutriments"].kind = "str"
    /\ "extra_key" \in DOMAIN fl_obj.d
    /\ DictGet(fl_out.value, "fat_100g") = None

(***************************************************************************)
(* C2 - make_partition_values is total: whatever created_t and             *)
(* countries_tags are, it returns a pair of non-empty strings and no       *)
(* exception escapes.                                                      *)
(***************************************************************************)
C2_PartitionTotal ==
    pv_pc # "start" =>
        /\ pv_out.status = "ok"
        /\ pv_out.year # << >>
        /\ pv_out.country # << >>
        /\ ("created_t" \notin DOMAIN pv_row
              \/ pv_row["created_t"].kind \in {"none", "list", "bigint"}
              \/ pv_row["created_t"] \in {PyNaN, PyInf, PyStr(Unknown)})
              => pv_out.year = Unknown
        /\ ("countries_tags" \notin DOMAIN pv_row
              \/ pv_row["countries_tags"] \in {None, PyList(<< >>),
                                               PyStr(<< >>)})
              => pv_out.country = Unknown

(***************************************************************************)
(* C3 - normalize_country is idempotent on its own results: for every slug *)
(* s it returns, normalize_country(s) = s.                                 *)
(***************************************************************************)
C3_Idempotent ==
    pv_pc = "renormalized" =>
        /\ nc_out.status = "ok"
        /\ nc_out.value = RowSlug.value

(***************************************************************************)
(* C4 - type coercion never drops rows: for every chunk that reaches the   *)
(* coercion steps, the batch handed to the sink has exactly as many rows   *)
(* as the chunk had lines; an unparseable cell becomes null and its row    *)
(* is kept.                                                                *)
(***************************************************************************)
SinkRows == SumSeq([i \in 1..Len(i_sink) |-> Len(i_sink[i].rows)])

\* the chunks read so far have all left the coercion steps, and neither
\* the input nor the sink failed
CoercedAll ==
    /\ i_pc \in {"Reading", "Done", "Failed", "Validated"}
    /\ i_err.where \notin {"flatten", "partition", "write"}

C4_CoercionKeepsRows == CoercedAll => SinkRows = i_pos

(***************************************************************************)
(* C5 - round trip: the dataset written by stream_ingest, checked by       *)
(* check_detailed, yields a row count equal to the sum of the written      *)
(* batch sizes, which is the number of lines ingested, and no column or    *)
(* type mismatch.                                                          *)
(***************************************************************************)
C5_RoundTrip ==
    (i_pc = "Validated" /\ i_pos > 0 /\ CoercedAll) =>
        /\ i_vres.status = "ok"
        /\ i_vres.total = SinkRows
        /\ i_vres.total = i_pos

(***************************************************************************)
(* C6 - for a table with all drop-columns, the table clean returns has no  *)
(* exclusion-list column, only grades in {a,b,c,d,e} and no value above    *)
(* 100 or below 0 in a remaining '_100g' column; a row is removed exactly  *)
(* when it is out of range in some remaining nutrient column or has an     *)
(* invalid grade, and the values 0 and 100 are kept.                       *)
(***************************************************************************)
HasDropCols(df) == SeqToSet(DROP_COLS) \subseteq SeqToSet(df.columns)

RemainingNutrients(df) ==
    {c \in SeqToSet(df.columns) : EndsWith100g(c)} \ SeqToSet(DROP_COLS)

\* the rows of the input that are to survive
Survives(r) ==
    /\ \A c \in RemainingNutrients(c_df) :
          r.cells[c].kind = "int" =>
              (IntValue(r.cells[c]) >= 0 /\ IntValue(r.cells[c]) <= 100)
    /\ r.cells[TARGET].kind = "str"
    /\ r.cells[TARGET].s \in {<< "a" >>, << "b" >>, << "c" >>, << "d" >>,
                              << "e" >>}

C6_CleanFilters ==
    (c_pc = "done" /\ HasDropCols(c_df)) =>
        /\ (TARGET \in SeqToSet(c_df.columns)
              /\ (c_flag => RemainingNutrients(c_df) # {}))
              => c_out.status = "ok"
        /\ c_out.status = "ok" =>
              LET out  == c_out.table
                  want == SelectSeq(c_df.rows, Survives)
              IN  /\ SeqToSet(out.columns) \cap SeqToSet(DROP_COLS) = {}
                  /\ SeqToSet(out.columns)
                        = SeqToSet(c_df.columns) \ SeqToSet(DROP_COLS)
                  /\ Len(out.rows) = Len(want)
                  /\ \A i \in 1..Len(out.rows) :
                        /\ out.rows[i].id = i - 1
                        /\ \A c \in SeqToSet(out.columns) :
                              out.rows[i].cells[c] = want[i].cells[c]

\* one row on the limits (kept) and one row out of range (removed), while
\* the dropped energy_100g is far above 100 in both
C6_Witness ==
    /\ c_pc = "done" /\ c_out.status = "ok"
    /\ {"sugar_100g", "protein_100g"} \subseteq SeqToSet(c_df.columns)
    /\ Len(c_df.rows) = 2 /\ Len(c_out.table.rows) = 1
    /\ c_df.rows[1].cells["sugar_100g"] = PyNum(100)
    /\ c_df.rows[1].cells["protein_100g"] = PyNum(0)
    /\ c_df.rows[2].cells["sugar_100g"] = PyNum(0 - 1)
    /\ c_df.rows[2].cells["protein_100g"] = PyNum(0)
    /\ c_df.rows[2].cells[TARGET] = PyStr(<< "a" >>)
    /\ c_out.table.rows[1].cells["sugar_100g"] = PyNum(100)

(***************************************************************************)
(* C7 - summary metadata with a column outside the schema contract makes   *)
(* check_summary raise, and the error lists exactly those columns as       *)
(* extras, whatever the partitions and types are.                          *)
(***************************************************************************)
ExtraSummaryCols ==
    {c \in SeqToSet(DictKeys(v_meta.cols)) : c \notin SeqToSet(KEEP_COLS)}

C7_SummaryExtras ==
    (is_summary(v_meta) /\ v_pc \in {"count", "exited"}
        /\ v_res.what # "read" /\ ExtraSummaryCols # {}) =>
        /\ v_pc = "exited" /\ v_exit = 1
        /\ v_res.status = "ValueError" /\ v_res.what = "cols"
        /\ SeqToSet(v_res.extras) = ExtraSummaryCols
        /\ Len(v_res.extras) = Cardinality(ExtraSummaryCols)

\* extras only: no column missing, good partitions and types, still rejected
C7_Witness ==
    /\ is_summary(v_meta) /\ v_pc = "exited"
    /\ ExtraSummaryCols = {"categories_tags", "additives_n"}
    /\ v_res.missing = << >>
    /\ v_res.extras = << "additives_n", "categories_tags" >>
    /\ DictKeys(v_meta.parts) = PART_COLS

(***************************************************************************)
(* C8 - in the detailed path, when the row counts of all fragments sum to  *)
(* zero (no fragments, or fragments without an integer row count), the     *)
(* check raises, even if the fragment schema matches the contract.         *)
(***************************************************************************)
FragRowCounts ==
    [i \in 1..Len(v_meta.frags) |->
        IF v_meta.frags[i].rows.has THEN v_meta.frags[i].rows.n ELSE 0]

C8_DetailedZeroRows ==
    (~is_summary(v_meta) /\ v_pc = "exited" /\ v_res.what # "read"
        /\ SumSeq(FragRowCounts) = 0) =>
        /\ v_res.status \in {"ValueError", "RuntimeError"}
        /\ CanIterate(v_meta) =>
              (v_res.status = "ValueError" /\ v_res.what = "rows")
        /\ v_exit = 1

\* a fragment with the contract's schema and no integer row count
C8_Witness ==
    /\ v_pc = "exited" /\ v_meta.shape = "dict" /\ Len(v_meta.frags) = 2
    /\ v_meta.frags[1].schema = [has |-> TRUE, fields |-> ArrowFields]
    /\ ~v_meta.frags[1].rows.has
    /\ v_meta.frags[2].rows = [has |-> TRUE, n |-> 0]
    /\ v_res.status = "ValueError" /\ v_res.what = "rows"

(***************************************************************************)
(* C9 - the summary path rejects an empty dataset too: metadata that       *)
(* matches the contract with a row count of zero fails the validation.     *)
(***************************************************************************)
C9_SummaryZeroRows ==
    (is_summary(v_meta) /\ v_pc = "exited" /\ v_count = 0) =>
        (v_exit = 1 /\ v_res.status # "ok")

(***************************************************************************)
(* C10 - the validation command exits with status 0 exactly when the       *)
(* chosen check and the row count complete without error; every failure    *)
(* ends the run with status 1, and never with an uncaught exception.       *)
(***************************************************************************)
\* the chosen check, evaluated on the metadata that was read
ChosenCheck ==
    IF is_summary(v_meta) THEN check_summary(v_meta)
    ELSE check_detailed(v_meta)

C10_ExitStatus ==
    v_pc = "exited" =>
        /\ v_exit \in {0, 1}
        /\ ~v_uncaught
        /\ v_exit = 0 <=> v_res.status = "ok"
        /\ v_exit = 0 =>
              /\ ChosenCheck.status = "ok"
              /\ is_summary(v_meta) => v_count >= 0
        /\ (v_res.what # "read" /\ ChosenCheck.status # "ok") => v_exit = 1
        /\ v_res.what \in {"read", "count"} => v_exit = 1

\* a failure that is not a ValueError: no schema in any fragment
C10_Witness ==
    /\ v_pc = "exited" /\ v_exit = 1
    /\ v_res.status = "RuntimeError" /\ v_res.what = "schema"

(***************************************************************************)
(* C11 - for every finite input and chunk size of at least 1 the ingestion *)
(* loop terminates, and once a chunk shorter than the chunk size (the      *)
(* empty chunk included) has been processed the loop is never back at the  *)
(* read of the input.                                                      *)
(***************************************************************************)
LoopEnded == i_pc \in {"Done", "Failed", "Validated"}

\* the last chunk read was not empty and shorter than requested
ShortChunk == i_pos > 0 /\ Len(i_lines) < i_chunk_rows

SinkFailed == i_err.where = "write"

C12_SinkFailureAborts ==
    /\ [](i_rows_written = SinkRows)
    /\ [](SinkFailed => i_pc \in {"Failed", "Validated"})
    /\ [][(i_err'.where = "write" \/ SinkFailed) =>
             /\ i_sink' = i_sink
             /\ i_rows_written' = i_rows_written
             /\ i_pos' = i_pos]_vars

\* no run gets as far as a failing append: the coercion fails first
C12_AppendNeverAttempted ==
    /\ ~SinkFailed
    /\ i_sink = << >>

(***************************************************************************)
(* C13 - KEEP_COLS has no duplicates and contains the target column; each  *)
(* of its names is typed by exactly one of DTYPES and LIST_TYPES, and      *)
(* neither table names a column outside KEEP_COLS.                         *)
(***************************************************************************)
NoDuplicates(seq) == Cardinality(SeqToSet(seq)) = Len(seq)

\* the columns of KEEP_COLS that no table types, or that both tables type
NotTypedOnce ==
    {c \in SeqToSet(KEEP_COLS) : DictHas(DTYPES, c) = DictHas(LIST_TYPES, c)}

\* the columns a table types that are not in KEEP_COLS
TypedOutside ==
    (SeqToSet(DictKeys(DTYPES)) \cup SeqToSet(DictKeys(LIST_TYPES)))
        \ SeqToSet(KEEP_COLS)

\* stated of the frame that stream_ingest builds from a chunk, whose
\* columns are the canonical column set
C13_OneKindPerColumn ==
    i_pc = "Partitioning" =>
        /\ i_df.columns = KEEP_COLS
        /\ NoDuplicates(i_df.columns)
        /\ TARGET \in SeqToSet(i_df.columns)
        /\ NotTypedOnce = {}
        /\ TypedOutside = {}

(***************************************************************************)
(* C14 - when outlier logging is on and the last processed nutrient column *)
(* had at least one out-of-range row, clean writes one table to the audit  *)
(* sink; the table is not empty, it holds every row removed by the last    *)
(* nutrient column and only rows removed for being out of range.           *)
(***************************************************************************)
\* the loop variables of clean after the last nutrient column
LastColumn(df) ==
    LET kept == NotIn(df.columns, SeqToSet(DROP_COLS))
    IN  CleanLoop(SelectSeq(kept, EndsWith100g),
                  [rows |-> Project(df.rows, kept), mask |-> {},
                   outliers |-> << >>, bound |-> FALSE])

\* the labels of the rows out of range in some remaining nutrient column
RemovedForRange(df) ==
    {r.id : r \in {q \in SeqToSet(df.rows) :
                      \E c \in RemainingNutrients(df) : OutOfRange(q.cells[c])}}

AuditCase ==
    /\ c_pc = "done" /\ c_flag
    /\ HasDropCols(c_df) /\ TARGET \in SeqToSet(c_df.columns)
    /\ LastColumn(c_df).outliers # << >>

C14_AuditHoldsRemovedRows ==
    AuditCase =>
        /\ c_out.status = "ok"
        /\ Len(c_out.audit) = 1
        /\ c_out.audit[1].rows # << >>
        /\ LastColumn(c_df).mask
              \subseteq {r.id : r \in SeqToSet(c_out.audit[1].rows)}
        /\ {r.id : r \in SeqToSet(c_out.audit[1].rows)}
              \subseteq RemovedForRange(c_df)

(***************************************************************************)
(* C15 - clean returns normally on every table that has every DROP_COLS    *)
(* column and the target column, with or without a '_100g' column and with *)
(* outlier logging on or off; on a table that lacks a DROP_COLS column it  *)
(* fails with the missing-column error (KeyError) and produces neither a   *)
(* table nor an audit write.  No other error is raised.                    *)
(***************************************************************************)
C15_CleanErrors ==
    c_pc = "done" =>
        /\ (HasDropCols(c_df) /\ TARGET \in SeqToSet(c_df.columns))
              => c_out.status = "ok"
        /\ ~HasDropCols(c_df) =>
              /\ c_out.status = "KeyError"
              /\ c_out.table = EmptyTable
              /\ c_out.audit = << >>
        /\ c_out.status \in {"ok", "KeyError"}

(***************************************************************************)
(* C16 - the loop moves Reading -> Flattening -> Partitioning -> Coercing  *)
(* and writing -> (Reading | Done) in this order; when it is back at the   *)
(* read, or over without an input or sink failure, every chunk read so far *)
(* is in the sink exactly once and in input order; the sink only grows by  *)
(* one batch at its end, and the rows-written total changes only in the    *)
(* step that appends a batch, by the size of that batch.                   *)
(***************************************************************************)
LoopOrder ==
    {<<"Reading", "Flattening">>, <<"Reading", "Done">>,
     <<"Flattening", "Partitioning">>, <<"Flattening", "Failed">>,
     <<"Partitioning", "Coercing">>, <<"Partitioning", "Failed">>,
     <<"Coercing", "Reading">>, <<"Coercing", "Failed">>,
     <<"Done", "Validated">>, <<"Failed", "Validated">>}

\* the number of non-empty chunks read when i_pos lines have been read
ChunksRead == (i_pos + i_chunk_rows - 1) \div i_chunk_rows

\* the number of lines of the j-th chunk
ChunkSize(j) == Min(j * i_chunk_rows, i_pos) - (j - 1) * i_chunk_rows

C16_LoopSequence ==
    /\ [](CoercedAll =>
            /\ Len(i_sink) = ChunksRead
            /\ \A j \in 1..Len(i_sink) : Len(i_sink[j].rows) = ChunkSize(j))
    /\ [][i_pc' # i_pc => <<i_pc, i_pc'>> \in LoopOrder]_vars
    /\ [][i_sink' # i_sink =>
             /\ i_pc = "Coercing" /\ i_pc' = "Reading"
             /\ Len(i_sink') = Len(i_sink) + 1
             /\ SubSeq(i_sink', 1, Len(i_sink)) = i_sink]_vars
    /\ [][i_rows_written' # i_rows_written =>
             /\ Len(i_sink') = Len(i_sink) + 1
             /\ i_rows_written' = i_rows_written
                                    + Len(i_sink'[Len(i_sink')].rows)]_vars

(***************************************************************************)
(* C17 - every pair that make_partition_values returns is well-formed: the *)
(* year is a string of exactly four digits or "unknown", and the country   *)
(* is "unknown" or a non-empty string of characters in [a-z0-9-]; this     *)
(* holds for every created_t for which a year is computed.                 *)
(***************************************************************************)
AllChars(cs, Test(_)) == \A i \in 1..Len(cs) : Test(cs[i])

C17_WellFormedPartition ==
    (pv_pc # "start" /\ pv_out.status = "ok") =>
        /\ \/ pv_out.year = Unknown
           \/ Len(pv_out.year) = 4 /\ AllChars(pv_out.year, IsDigit)
        /\ \/ pv_out.country = Unknown
           \/ pv_out.country # << >> /\ AllChars(pv_out.country, IsSlugChar)

(***************************************************************************)
(* C18 - for the string columns product_name, main_category, serving_size  *)
(* and nutrition_grade_fr, once the coercion steps have acted on a chunk   *)
(* an empty-string cell of the flattened chunk is null and any other       *)
(* string cell is unchanged; no batch in the sink holds an empty string in *)
(* one of these columns.                                                   *)
(***************************************************************************)
StringKind ==
    {"product_name", "main_category", "serving_size", "nutrition_grade_fr"}

EmptyStr == PyStr(<< >>)

\* the coercion steps have acted on the chunk read last
ChunkCoerced ==
    /\ i_pc \in {"Reading", "Failed", "Validated"}
    /\ i_pos > 0
    /\ i_err.where \notin {"flatten", "partition"}

C18_EmptyStringToNull ==
    /\ ChunkCoerced =>
          \A j \in 1..Len(i_df.rows) : \A c \in StringKind :
              LET x == FlattenLines(i_lines).rows[j][c]
                  y == i_df.rows[j][c]
              IN  /\ x = EmptyStr => y = None
                  /\ (x.kind = "str" /\ x # EmptyStr) => y = x
    /\ \A b \in 1..Len(i_sink) : \A j \in 1..Len(i_sink[b].rows) :
          \A c \in StringKind : i_sink[b].rows[j][c] # EmptyStr

(***************************************************************************)
(* C19 - every column name in the float, integer-count, tag and string     *)
(* column lists that the coercion steps read is a member of KEEP_COLS, and *)
(* a non-empty chunk of valid JSON lines that was flattened and            *)
(* partitioned passes the coercion and final-ordering steps without a      *)
(* missing-column failure.                                                 *)
(***************************************************************************)
\* the labels the coercion steps select that extract_columns does not produce
NotProduced ==
    SeqToSet(float_cols \o int_cols \o tag_cols \o string_cols)
        \ SeqToSet(KEEP_COLS)

C19_ColumnsProduced ==
    /\ ChunkCoerced => (NotProduced = {} /\ i_err.status # "KeyError")
    /\ i_pc = "Coercing" => FirstMissing(CoerceSteps, i_df.columns) = << >>

====
